---------------------------- MODULE Spec2Model ----------------------------
(***************************************************************************)
(* Model of the NTM memory interface (src/models/ntm/interface.py).        *)
(*                                                                         *)
(* Tensors hold exact non-negative rationals.  TLC's integers are 32 bits  *)
(* wide, while sharpening raises attention entries to the power gamma and  *)
(* F.normalize compares a norm with its eps of 1e-12, so naturals are      *)
(* kept as little-endian sequences of base-10000 digits (no leading zero   *)
(* digit, 0 is the empty sequence) and a rational is a reduced pair        *)
(* <<numerator, denominator>> of such naturals.                            *)
(***************************************************************************)
EXTENDS Integers, Sequences, FiniteSets, TLC

\* ------------------------------------------------------------------------
\* Naturals of any size
\* ------------------------------------------------------------------------
\* the digit base: the square of 100, so that a product of two digits plus a
\* carry stays below 2^31
Base == 100 * 100

RECURSIVE BFromInt(_)
BFromInt(n) == IF n = 0 THEN <<>> ELSE <<n % Base>> \o BFromInt(n \div Base)

Dig(a, i) == IF i <= Len(a) THEN a[i] ELSE 0

RECURSIVE BStrip(_)
BStrip(a) ==
  IF a = <<>> THEN a
  ELSE IF a[Len(a)] = 0 THEN BStrip(SubSeq(a, 1, Len(a) - 1)) ELSE a

RECURSIVE BAddAt(_, _, _, _)
BAddAt(a, b, i, c) ==
  IF i > Len(a) /\ i > Len(b)
  THEN (IF c = 0 THEN <<>> ELSE <<c>>)
  ELSE LET s == Dig(a, i) + Dig(b, i) + c
       IN  <<s % Base>> \o BAddAt(a, b, i + 1, s \div Base)

BAdd(a, b) == BAddAt(a, b, 1, 0)

\* -1, 0, 1 as a < b, a = b, a > b (digit i downwards)
RECURSIVE BCmpAt(_, _, _)
BCmpAt(a, b, i) ==
  IF i = 0 THEN 0
  ELSE IF a[i] < b[i] THEN -1
  ELSE IF a[i] > b[i] THEN 1
  ELSE BCmpAt(a, b, i - 1)

BCmp(a, b) ==
  IF Len(a) < Len(b) THEN -1
  ELSE IF Len(a) > Len(b) THEN 1
  ELSE BCmpAt(a, b, Len(a))

BLess(a, b) == BCmp(a, b) = -1
BLeq(a, b) == BCmp(a, b) <= 0

\* a - b, for a >= b only
RECURSIVE BSubAt(_, _, _, _)
BSubAt(a, b, i, c) ==
  IF i > Len(a) THEN <<>>
  ELSE LET s == a[i] - Dig(b, i) - c
       IN  IF s < 0 THEN <<s + Base>> \o BSubAt(a, b, i + 1, 1)
           ELSE <<s>> \o BSubAt(a, b, i + 1, 0)

BSub(a, b) == BStrip(BSubAt(a, b, 1, 0))

RECURSIVE BMulSmallAt(_, _, _, _)
BMulSmallAt(a, k, i, c) ==
  IF i > Len(a) THEN (IF c = 0 THEN <<>> ELSE <<c>>)
  ELSE LET s == a[i] * k + c
       IN  <<s % Base>> \o BMulSmallAt(a, k, i + 1, s \div Base)

\* a * k for one digit k
BMulSmall(a, k) == IF k = 0 THEN <<>> ELSE BMulSmallAt(a, k, 1, 0)

RECURSIVE BMulAt(_, _, _)
BMulAt(a, b, i) ==
  IF i > Len(b) THEN <<>>
  ELSE LET rest == BMulAt(a, b, i + 1)
           high == IF rest = <<>> THEN rest ELSE <<0>> \o rest
       IN  BAdd(BMulSmall(a, b[i]), high)

BMul(a, b) ==
  IF a = <<>> \/ b = <<>> THEN <<>>
  ELSE IF Len(a) >= Len(b) THEN BMulAt(a, b, 1) ELSE BMulAt(b, a, 1)

\* the value of a natural of at most two digits
BSmall(a) == Len(a) <= 2
BToInt(a) == Dig(a, 1) + Base * Dig(a, 2)

RECURSIVE GcdInt(_, _)
GcdInt(m, n) == IF n = 0 THEN m ELSE GcdInt(n, m % n)

\* the largest q in lo..hi with q * b <= r (by bisection)
RECURSIVE QDigit(_, _, _, _)
QDigit(r, b, lo, hi) ==
  IF lo = hi THEN lo
  ELSE LET mid == (lo + hi + 1) \div 2
       IN  IF BLeq(BMulSmall(b, mid), r) THEN QDigit(r, b, mid, hi)
           ELSE QDigit(r, b, lo, mid - 1)

\* one step of long division: st = <<quotient digits so far, remainder>>,
\* taking in digit i of a
DivStep(st, a, b, i) ==
  LET r == BStrip(<<a[i]>> \o st[2])
      q == IF BLess(r, b) THEN 0
           ELSE IF BSmall(r) THEN BToInt(r) \div BToInt(b)
           ELSE QDigit(r, b, 1, Base - 1)
  IN  <<(<<q>>) \o st[1], IF q = 0 THEN r ELSE BSub(r, BMulSmall(b, q))>>

\* digits hi down to lo of a taken in, halving the range so that the
\* recursion stays shallow
RECURSIVE DivFold(_, _, _, _, _)
DivFold(st, a, b, lo, hi) ==
  IF Len(st[2]) > Len(b) THEN st   \* never: the remainder is below b
  ELSE IF lo = hi THEN DivStep(st, a, b, lo)
  ELSE LET mid == (lo + hi) \div 2
       IN  DivFold(DivFold(st, a, b, mid + 1, hi), a, b, lo, mid)

\* <<a \div b, a % b>> for b > 0
BDivMod(a, b) ==
  IF BLess(a, b) THEN <<(<<>>), a>>
  ELSE IF BSmall(a) THEN <<BFromInt(BToInt(a) \div BToInt(b)),
                           BFromInt(BToInt(a) % BToInt(b))>>
  ELSE LET st == DivFold(<<(<<>>), (<<>>)>>, a, b, 1, Len(a))
       IN  <<BStrip(st[1]), st[2]>>

BDiv(a, b) == IF b = <<1>> THEN a ELSE BDivMod(a, b)[1]

\* k steps of Euclid's algorithm on p = <<a, b>>, halving k so that the
\* recursion stays shallow
RECURSIVE Euclid(_, _)
Euclid(p, k) ==
  IF p[2] = <<>> THEN p
  ELSE IF k <= 1 THEN <<p[2], BDivMod(p[1], p[2])[2]>>
  ELSE Euclid(Euclid(p, k \div 2), k - k \div 2)

\* greatest common divisor; Euclid's algorithm ends within 20 steps per
\* base-10000 digit of the smaller operand
BGcd(a, b) ==
  IF a = <<>> THEN b
  ELSE IF b = <<>> THEN a
  ELSE IF BSmall(a) /\ BSmall(b) THEN BFromInt(GcdInt(BToInt(a), BToInt(b)))
  ELSE Euclid(<<a, b>>, 20 * Len(b) + 2)[1]

B0 == <<>>
B1 == <<1>>

\* ------------------------------------------------------------------------
\* Non-negative rationals
\* ------------------------------------------------------------------------
RNorm(n, d) == LET g == BGcd(n, d) IN <<BDiv(n, g), BDiv(d, g)>>

Q(n, d) == RNorm(BFromInt(n), BFromInt(d))

R0 == <<B0, B1>>
R1 == <<B1, B1>>

RAdd(x, y) ==
  IF x[2] = y[2] THEN RNorm(BAdd(x[1], y[1]), x[2])
  ELSE RNorm(BAdd(BMul(x[1], y[2]), BMul(y[1], x[2])), BMul(x[2], y[2]))

RMul(x, y) == RNorm(BMul(x[1], y[1]), BMul(x[2], y[2]))

RCmp(x, y) == BCmp(BMul(x[1], y[2]), BMul(y[1], x[2]))
RLess(x, y) == RCmp(x, y) = -1
RLeq(x, y) == RCmp(x, y) <= 0

\* x - y, for x >= y only
RSub(x, y) ==
  RNorm(BSub(BMul(x[1], y[2]), BMul(y[1], x[2])), BMul(x[2], y[2]))

\* x / y, for y > 0 only
RDiv(x, y) == RNorm(BMul(x[1], y[2]), BMul(x[2], y[1]))

RMax(x, y) == IF RLess(x, y) THEN y ELSE x

BSquare(a) == BMul(a, a)

\* a^g by repeated squaring
RECURSIVE BPow(_, _)
BPow(a, g) ==
  IF g = 0 THEN B1
  ELSE IF g % 2 = 0 THEN BSquare(BPow(a, g \div 2))
  ELSE BMul(a, BPow(a, g - 1))

\* x^g: the powers of a reduced fraction's terms have no common factor
RPow(x, g) == <<BPow(x[1], g), BPow(x[2], g)>>

\* sum and maximum of a sequence of rationals
RECURSIVE RSumTo(_, _)
RSumTo(v, i) == IF i = 0 THEN R0 ELSE RAdd(RSumTo(v, i - 1), v[i])

RSum(v) == RSumTo(v, Len(v))

RECURSIVE RMaxTo(_, _)
RMaxTo(v, i) == IF i = 0 THEN R0 ELSE RMax(RMaxTo(v, i - 1), v[i])

RMaxOf(v) == RMaxTo(v, Len(v))

\* the exponent of a power: the integer a whole rational stands for
RToInt(x) == BToInt(x[1])

\* A tensor holds its entries: the sequence with every entry evaluated.
Tensor(x) == x \o <<>>

\* ------------------------------------------------------------------------
\* State
\* ------------------------------------------------------------------------
VARIABLES
  interface_shift_size,       \* Interface.interface_shift_size
  interface_num_read_heads,   \* Interface.interface_num_read_heads
  num_memory_content_bits,    \* Interface.num_memory_content_bits
  memory,                     \* the memory of the cell state, [B][A][C]
  read_attentions,            \* InterfaceStateTuple.read_weights, [H][B][A]
  write_attention,            \* InterfaceStateTuple.write_weights, [B][A]
  last,                       \* the arguments, intermediate values and
                              \* results of the last call
  steps,                      \* number of forward calls made
  ctrl_state,                 \* MAECellStateTuple.ctrl_state
  layer                       \* NTM.forward: its locals and the calls of
                              \* the cell it has made

\* an attribute or a variable nothing has been assigned to
Unset == "unset"

vars == <<interface_shift_size, interface_num_read_heads,
          num_memory_content_bits, memory, read_attentions, write_attention,
          last, steps, ctrl_state, layer>>

config == <<interface_shift_size, interface_num_read_heads,
            num_memory_content_bits>>

\* ------------------------------------------------------------------------
\* torch operations
\* ------------------------------------------------------------------------
\* eps of torch.nn.functional.normalize: 1e-12, and its square
EPS == <<B1, BMul(BFromInt(1000000), BFromInt(1000000))>>
EPS2 == RMul(EPS, EPS)

\* F.normalize(x, p=1, dim=1) of one batch element: x / max(sum |x|, eps)
divide_by(x, denom) == Tensor([a \in 1..Len(x) |-> RDiv(x[a], denom)])

normalize_p1(x) == divide_by(x, RMax(RSum(x), EPS))

\* torch.matmul(torch.transpose(attention_Ax1, 0, 1), memory_AxC) of one
\* batch element: row c is the attention-weighted sum of column c
matmul_1xA_AxC(attention, mem) ==
  Tensor([c \in 1..Len(mem[1]) |->
     RSum([a \in 1..Len(mem) |-> RMul(attention[a], mem[a][c])])])

\* torch.matmul(attention_Ax1, vector_1xC) of one batch element
matmul_Ax1_1xC(attention, vector) ==
  Tensor([a \in 1..Len(attention) |->
     Tensor([c \in 1..Len(vector) |-> RMul(attention[a], vector[c])])])

\* F.conv1d(input_1x1xL, weight_1x1xS) of one batch element: a
\* cross-correlation without padding, of L - S + 1 entries
conv1d(input, weight) ==
  Tensor([t \in 1..(Len(input) - Len(weight) + 1) |->
     RSum([s \in 1..Len(weight) |-> RMul(input[t + s - 1], weight[s])])])

\* ------------------------------------------------------------------------
\* Interface (src/models/ntm/interface.py)
\* ------------------------------------------------------------------------
\* A dictionary of parameter sizes is the sequence of its <<name, size>>
\* items in insertion order, the order dict.values() gives.
read_param_sizes_of(content_bits, shift_size) ==
  << <<"query_vector", content_bits>>, <<"beta", 1>>, <<"gate", 1>>,
     <<"shift", shift_size>>, <<"gamma", 1>> >>

write_param_sizes_of(content_bits, shift_size) ==
  << <<"query_vector", content_bits>>, <<"beta", 1>>, <<"gate", 1>>,
     <<"shift", shift_size>>, <<"gamma", 1>>,
     <<"erase_vector", content_bits>>, <<"add_vector", content_bits>> >>

read_param_sizes ==
  read_param_sizes_of(num_memory_content_bits, interface_shift_size)

write_param_sizes ==
  write_param_sizes_of(num_memory_content_bits, interface_shift_size)

num_read_params == num_memory_content_bits + 1 + 1 + 1 + interface_shift_size

num_write_params ==
  3 * num_memory_content_bits + 1 + 1 + 1 + interface_shift_size

\* np.cumsum of an integer sequence
RECURSIVE cumsum(_)
cumsum(lengths) ==
  IF lengths = <<>> THEN <<>>
  ELSE LET front == cumsum(SubSeq(lengths, 1, Len(lengths) - 1))
       IN  Append(front, (IF front = <<>> THEN 0 ELSE front[Len(front)])
                         + lengths[Len(lengths)])

\* boundaries without the 0 inserted in front
calculate_param_locations_no_origin(param_sizes_dict) ==
  cumsum([i \in 1..Len(param_sizes_dict) |-> param_sizes_dict[i][2]])

calculate_param_locations(param_sizes_dict) ==
  LET lengths == [i \in 1..Len(param_sizes_dict) |-> param_sizes_dict[i][2]]
  IN  cumsum(<<0>> \o lengths)

read_param_locations == calculate_param_locations(read_param_sizes)
write_param_locations == calculate_param_locations(write_param_sizes)

\* seq[lo:hi] of Python, for 0 <= lo
Slice(seq, lo, hi) ==
  SubSeq(seq, lo + 1, IF hi < Len(seq) THEN hi ELSE Len(seq))

\* params is [B][P]; every split is [B][size]
split_params(params, locations) ==
  Tensor([i \in 1..(Len(locations) - 1) |->
     Tensor([b \in 1..Len(params) |->
        Slice(params[b], locations[i], locations[i + 1])])])

\* an init_state that leaves out the division by the number of addresses
init_state_ones(batch_size, num_memory_addresses) ==
  [read_weights |->
     Tensor([i \in 1..interface_num_read_heads |->
        Tensor([b \in 1..batch_size |->
           Tensor([a \in 1..num_memory_addresses |-> R1])])]),
   write_weights |->
     Tensor([b \in 1..batch_size |->
        Tensor([a \in 1..num_memory_addresses |-> R1])])]

init_state(batch_size, num_memory_addresses) ==
  LET uniform ==
        Tensor([b \in 1..batch_size |->
           Tensor([a \in 1..num_memory_addresses |->
              RDiv(R1, Q(num_memory_addresses, 1))])])
  IN  [read_weights |->
         Tensor([i \in 1..interface_num_read_heads |-> uniform]),
       write_weights |-> uniform]

\* a squared norm that is not clamped
Norm2_unclamped(row) == RSum([c \in 1..Len(row) |-> RMul(row[c], row[c])])

\* Squared norm of a memory row as F.normalize(p=2) divides by it: the norm
\* is clamped from below by eps.
ClampedNorm2(row) ==
  RMax(RSum([c \in 1..Len(row) |-> RMul(row[c], row[c])]), EPS2)

\* (row_a . query) for every address a of one batch element
row_dots(query, mem) ==
  Tensor([a \in 1..Len(mem) |->
     RSum([c \in 1..Len(query) |-> RMul(mem[a][c], query[c])])])

row_norms(mem) == Tensor([a \in 1..Len(mem) |-> ClampedNorm2(mem[a])])

\* The similarity of address a is
\* beta * (row_a . query) / (max(|row_a|, eps) * max(|query|, eps)); beta and
\* the query's norm are positive factors common to all addresses and all
\* entries are non-negative, so the order of the similarities is that of
\* (row_a . query)^2 / max(|row_a|, eps)^2, kept unreduced.
similarity_keys(dot, norm2) ==
  Tensor([a \in 1..Len(dot) |->
     <<BMul(BMul(dot[a][1], dot[a][1]), norm2[a][2]),
       BMul(BMul(dot[a][2], dot[a][2]), norm2[a][1])>>])

\* for every address the number of addresses with a smaller key
rank_of(key) ==
  Tensor([a \in 1..Len(key) |->
     Cardinality({x \in 1..Len(key) : RLess(key[x], key[a])})])

\* For every address of one batch element the number of addresses less
\* similar to the query.
similarity_rank(query, mem) ==
  rank_of(similarity_keys(row_dots(query, mem), row_norms(mem)))

\* the largest weight a softmax outcome is built from
MaxSoftmaxWeight == 3

\* The strength from which exp(-beta * d) can be 0 in float32 for a
\* difference d <= 1 of two similarities: exp underflows below about -103.9.
UnderflowBeta == Q(104, 1)

\* Weights of the ranks: a greater rank has a greater weight (or, where exp
\* can underflow, both have weight 0), and the greatest rank a positive one.
softmax_weights(ranks, least) ==
  {k \in [ranks -> least..MaxSoftmaxWeight] :
     /\ \A r \in ranks : (\A r2 \in ranks : r2 <= r) => k[r] > 0
     /\ \A r1, r2 \in ranks :
          r1 < r2 => (k[r1] < k[r2] \/ (k[r1] = 0 /\ k[r2] = 0))}

\* F.softmax over the addresses of one batch element.  exp is not rational:
\* the outcomes are the distributions that give equal similarities equal
\* weight and a greater similarity a greater weight, as softmax_weights
\* allows.  rank[a] is the number of addresses less similar than a.
softmax_outcomes(rank, beta) ==
  {normalize_p1(Tensor([a \in 1..Len(rank) |-> Q(k[rank[a]], 1)]))
     : k \in softmax_weights({rank[a] : a \in 1..Len(rank)},
                             IF RLess(beta, UnderflowBeta) THEN 1 ELSE 0)}

\* the tensors [B][..] whose entry b is one of the outcomes per_batch[b]
batch_product(per_batch) ==
  {Tensor(w) :
     w \in {w \in [1..Len(per_batch) ->
                     UNION {per_batch[b] : b \in 1..Len(per_batch)}] :
              \A b \in 1..Len(per_batch) : w[b] \in per_batch[b]}}

\* The set of attentions [B][A] content addressing can return.
content_based_addressing(query_vector, beta, prev_memory) ==
  batch_product(
    Tensor([b \in 1..Len(prev_memory) |->
       softmax_outcomes(similarity_rank(query_vector[b], prev_memory[b]),
                        beta[b])]))

\* a gating that gives the content attention the weight 1 - gate
attention_after_gating_swapped(gate, content_attention, prev_attention) ==
  Tensor([b \in 1..Len(prev_attention) |->
     Tensor([a \in 1..Len(prev_attention[b]) |->
        RAdd(RMul(gate[b], prev_attention[b][a]),
             RMul(RSub(R1, gate[b]), content_attention[b][a]))])])

\* gate * content_attention + (1 - gate) * prev_attention  (line 216)
attention_after_gating(gate, content_attention, prev_attention) ==
  Tensor([b \in 1..Len(prev_attention) |->
     Tensor([a \in 1..Len(prev_attention[b]) |->
        RAdd(RMul(gate[b], content_attention[b][a]),
             RMul(RSub(R1, gate[b]), prev_attention[b][a]))])])

circular_index(idx, num_addr) ==
  IF idx < 0 THEN num_addr + idx
  ELSE IF idx >= num_addr THEN idx - num_addr
  ELSE idx

\* range(lo, hi) of Python as a sequence
Range(lo, hi) == [j \in 1..(hi - lo) |-> lo + j - 1]

\* -shift_size//2+1 of Python: the unary minus binds first and // floors
FirstShift(shift_size) == ((0 - shift_size) \div 2) + 1

ext_indices(num_addr, shift_size) ==
  LET shifts == Range(FirstShift(shift_size), num_addr + shift_size \div 2)
  IN  Tensor([j \in 1..Len(shifts) |-> circular_index(shifts[j], num_addr)])

\* torch.index_select along the addresses of one batch element (indices
\* count from 0); it raises IndexError for an index outside 0..A-1, a
\* negative one included
IndexError == "IndexError"

index_in_range(index, num_addr) ==
  \A j \in 1..Len(index) : index[j] \in 0..(num_addr - 1)

index_select(attention, index) ==
  Tensor([j \in 1..Len(index) |-> attention[index[j] + 1]])

\* whether circular_convolution raises for a memory of num_addr addresses
convolution_raises(num_addr) ==
  ~index_in_range(ext_indices(num_addr, interface_shift_size), num_addr)

\* a convolution that applies the kernel of the first batch element to every
\* batch element
circular_convolution_shared_kernel(attention, shift, prev_memory) ==
  LET ext_indices_tensor ==
        ext_indices(Len(prev_memory[1]), interface_shift_size)
  IN  IF ~index_in_range(ext_indices_tensor, Len(prev_memory[1]))
      THEN IndexError
      ELSE Tensor([b \in 1..Len(prev_memory) |->
             conv1d(index_select(attention[b], ext_indices_tensor),
                    shift[1])])

\* lines 289-311: the extended attention of every batch element is
\* convolved with the kernel of the same batch element (the loop of lines
\* 308-309 narrows both to element b), and the results are concatenated in
\* batch order
circular_convolution(attention, shift, prev_memory) ==
  LET batch_size == Len(prev_memory)
      num_addr == Len(prev_memory[1])
      shift_size == interface_shift_size
      ext_indices_tensor == ext_indices(num_addr, shift_size)
  IN  IF ~index_in_range(ext_indices_tensor, num_addr) THEN IndexError
      ELSE Tensor([b \in 1..batch_size |->
             conv1d(index_select(attention[b], ext_indices_tensor),
                    shift[b])])

\* a sharpening whose exponent is one too large
sharpening_one_more(attention, gamma) ==
  Tensor([b \in 1..Len(attention) |->
     normalize_p1(Tensor([a \in 1..Len(attention[b]) |->
                     RPow(attention[b][a], RToInt(gamma[b]) + 1)]))])

\* torch.pow(attention, gamma), then F.normalize(p=1) over the addresses
\* (lines 336-340)
sharpening(attention, gamma) ==
  Tensor([b \in 1..Len(attention) |->
     normalize_p1(Tensor([a \in 1..Len(attention[b]) |->
                     RPow(attention[b][a], RToInt(gamma[b]))]))])

location_based_addressing(attention, shift, gamma, prev_memory) ==
  sharpening(circular_convolution(attention, shift, prev_memory), gamma)

\* The set of attentions [B][A] the update can return.  The parameters are
\* the splits [B][size] of a parameter vector whose entries have already
\* been passed through the transformations of lines 199-207 (sigmoid for
\* the query and the gate, softplus + 1 for beta and gamma, softmax for the
\* shift); unsqueeze turns the [B][1] splits into per-batch scalars.
update_attention(query_vector, beta, gate, shift, gamma, prev_memory, prev_attention) ==
  LET beta_Bx1x1 == Tensor([b \in 1..Len(beta) |-> beta[b][1]])
      gate_Bx1x1 == Tensor([b \in 1..Len(gate) |-> gate[b][1]])
      gamma_Bx1x1 == Tensor([b \in 1..Len(gamma) |-> gamma[b][1]])
  IN  {location_based_addressing(
         attention_after_gating(gate_Bx1x1, content_attention,
                                prev_attention),
         shift, gamma_Bx1x1, prev_memory)
       : content_attention \in
           content_based_addressing(query_vector, beta_Bx1x1, prev_memory)}

\* a read of the memory the write head returns
memory_read_updated(prev_memory, memory_BxAxC) == memory_BxAxC

\* The memory whose rows the read heads weigh (lines 123 and 127): the
\* memory passed into the step, not the one the write head produces.
memory_read(prev_memory, memory_BxAxC) == prev_memory

\* torch.matmul(torch.transpose(read_attention, 1, 2), prev_memory),
\* squeezed to [B][C]  (lines 127, 132)
read_vector(read_attention, prev_memory) ==
  Tensor([b \in 1..Len(prev_memory) |->
     matmul_1xA_AxC(read_attention[b], prev_memory[b])])

\* an update that adds without erasing first
memory_update_without_erase(prev_memory, write_attention_BxAx1, erase_vector, add_vector) ==
  Tensor([b \in 1..Len(prev_memory) |->
     Tensor([a \in 1..Len(prev_memory[b]) |->
        Tensor([c \in 1..Len(prev_memory[b][a]) |->
           RAdd(prev_memory[b][a][c],
                RMul(write_attention_BxAx1[b][a], add_vector[b][c]))])])])

\* lines 150-156
memory_update(prev_memory, write_attention_BxAx1, erase_vector, add_vector) ==
  Tensor([b \in 1..Len(prev_memory) |->
     LET erased == matmul_Ax1_1xC(write_attention_BxAx1[b], erase_vector[b])
         add_content == matmul_Ax1_1xC(write_attention_BxAx1[b],
                                       add_vector[b])
     IN  Tensor([a \in 1..Len(prev_memory[b]) |->
            Tensor([c \in 1..Len(prev_memory[b][a]) |->
               LET preserve_content == RSub(R1, erased[a][c])
               IN  RAdd(RMul(prev_memory[b][a][c], preserve_content),
                        add_content[a][c])])])])

\* The entries <<b, a, c>> the update of lines 152-156 makes negative:
\* prev * (1 - w * e) + w * a < 0, that is prev + w * a < prev * (w * e).
\* (The tensors of the model hold the magnitudes of their entries; a sign
\* is kept here.)
negative_entries(prev_memory, write_attention_BxAx1, erase_vector, add_vector) ==
  {i \in {<<b, a, c>> : b \in 1..Len(prev_memory),
                        a \in 1..Len(prev_memory[1]),
                        c \in 1..Len(prev_memory[1][1])} :
     RLess(RAdd(prev_memory[i[1]][i[2]][i[3]],
                RMul(write_attention_BxAx1[i[1]][i[2]],
                     add_vector[i[1]][i[3]])),
           RMul(prev_memory[i[1]][i[2]][i[3]],
                RMul(write_attention_BxAx1[i[1]][i[2]],
                     erase_vector[i[1]][i[3]])))}

\* The attentions a head can come to: its parameter vector split by
\* locations, the first five splits passed to update_attention
\* (lines 117-123 and 136-147).
head_attentions(splits, prev_memory, prev_attention) ==
  update_attention(splits[1], splits[2], splits[3], splits[4], splits[5],
                   prev_memory, prev_attention)

\* ------------------------------------------------------------------------
\* Inputs
\* ------------------------------------------------------------------------
\* Values a sigmoid produces: (0, 1), and 0 and 1 where float32 saturates.
Sigmoids == {R0, Q(1, 2), R1}

\* query, erase and add vectors [C]
QueryVectors ==
  {[c \in 1..num_memory_content_bits |-> IF c = 1 THEN R1 ELSE R0]}

\* erase vectors taken from the linear layer as they are
EraseVectors_without_sigmoid ==
  {[c \in 1..num_memory_content_bits |-> Q(4, 1)]}

EraseVectors ==
  {[c \in 1..num_memory_content_bits |-> R1],
   [c \in 1..num_memory_content_bits |-> IF c = 1 THEN Q(1, 2) ELSE R0]}

AddVectors ==
  {[c \in 1..num_memory_content_bits |-> Q(1, 2)],
   [c \in 1..num_memory_content_bits |-> IF c = 1 THEN R0 ELSE R1]}

\* softplus + 1 of the strength: at least 1
Betas == {R1, Q(128, 1)}

\* softmax of the shift: the kernels that move by one offset, and the
\* uniform kernel
ShiftKernels ==
  {[s \in 1..interface_shift_size |-> IF s = k THEN R1 ELSE R0]
     : k \in 1..interface_shift_size}
  \cup {[s \in 1..interface_shift_size |-> RDiv(R1, Q(interface_shift_size, 1))]}

\* softplus + 1 of the sharpening factor: at least 1 and never clamped
\* (line 208 is commented out); whole values are taken
MaxGamma == 2
Gammas == 1..MaxGamma

\* the parameter vectors [P] of the heads, after their transformations
ReadParams(gammas) ==
  {q \o <<be>> \o <<g>> \o sh \o <<Q(gm, 1)>> :
     q \in QueryVectors, be \in Betas, g \in Sigmoids, sh \in ShiftKernels,
     gm \in gammas}

WriteParams(gammas, erase_vectors, add_vectors) ==
  {p \o e \o v : p \in ReadParams(gammas), e \in erase_vectors,
                 v \in add_vectors}

\* a parameter tensor [B][P]: one vector per batch element
Batched(vectors, batch_size) == [1..batch_size -> vectors]

\* ------------------------------------------------------------------------
\* Interface.forward
\* ------------------------------------------------------------------------
MaxSteps == 1

\* the attentions a head can come to over all its parameter tensors
attention_outcomes(splits, prev_memory, prev_attention) ==
  UNION {head_attentions(sp, prev_memory, prev_attention) : sp \in splits}

\* a write that weighs erase and add by the attention of the step before
write_outcomes_stale(write_splits, prev_memory, prev_attention) ==
  UNION {{[attention |-> w, erase_vector |-> sp[6], add_vector |-> sp[7],
           memory |-> memory_update(prev_memory, prev_attention, sp[6],
                                    sp[7])]
            : w \in head_attentions(ap, prev_memory, prev_attention),
              sp \in {x \in write_splits : SubSeq(x, 1, 5) = ap}}
           : ap \in {SubSeq(sp, 1, 5) : sp \in write_splits}}

\* The write head's outcomes: its attention with the erase and add vectors of
\* the same parameter tensor and the memory they update prev_memory to
\* (lines 136-156).
write_outcomes(write_splits, prev_memory, prev_attention) ==
  UNION {{[attention |-> w, erase_vector |-> sp[6], add_vector |-> sp[7],
           memory |-> memory_update(prev_memory, w, sp[6], sp[7])]
            : w \in head_attentions(ap, prev_memory, prev_attention),
              sp \in {x \in write_splits : SubSeq(x, 1, 5) = ap}}
           : ap \in {SubSeq(sp, 1, 5) : sp \in write_splits}}

\* a write head that starts from the previous attention of the first read
\* head
HeadOutcomes_write_from_read(read_params, write_params) ==
  [read |->
     Tensor([i \in 1..interface_num_read_heads |->
        attention_outcomes(
          {split_params(p, read_param_locations)
             : p \in Batched(read_params, Len(memory))},
          memory, read_attentions[i])]),
   write |->
     write_outcomes(
       {split_params(p, write_param_locations)
          : p \in Batched(write_params, Len(memory))},
       memory, read_attentions[1])]

\* heads that all start from the previous attention of the first read head
HeadOutcomes_from_first_head(read_params, write_params) ==
  [read |->
     Tensor([i \in 1..interface_num_read_heads |->
        attention_outcomes(
          {split_params(p, read_param_locations)
             : p \in Batched(read_params, Len(memory))},
          memory, read_attentions[1])]),
   write |->
     write_outcomes(
       {split_params(p, write_param_locations)
          : p \in Batched(write_params, Len(memory))},
       memory, write_attention)]

\* What the heads of one step can come to, from the state before the step:
\* for every read head the attentions it can return (lines 115-123), and the
\* outcomes of the write head.
HeadOutcomes(read_params, write_params) ==
  [read |->
     Tensor([i \in 1..interface_num_read_heads |->
        attention_outcomes(
          {split_params(p, read_param_locations)
             : p \in Batched(read_params, Len(memory))},
          memory, read_attentions[i])]),
   write |->
     write_outcomes(
       {split_params(p, write_param_locations)
          : p \in Batched(write_params, Len(memory))},
       memory, write_attention)]

\* a step that writes the new memory into the tensor it was given and appends
\* to the list it was given
objects_updated_in_place(prev_memory, prev_read, prev_write, new_memory, new_read, new_write) ==
  [given |-> [prev_memory_BxAxC |-> new_memory,
              prev_read_attentions_BxAx1_H |-> prev_read \o new_read,
              prev_write_attention_BxAx1 |-> prev_write],
   returned |-> [memory |-> "prev_memory_BxAxC",
                 read_weights |-> "prev_read_attentions_BxAx1_H",
                 write_weights |-> "write_attention_BxAx1"],
   created |-> [write_attention_BxAx1 |-> new_write]]

\* The objects of a step, by the names the code gives them, when the step
\* returns: the values the given objects then hold, the objects the returned
\* memory and state refer to, and the values of the objects the step has
\* created.  The read attentions go into a new list (lines 110, 131), the
\* memory is the result of * and + on tensors (line 156), and no operation
\* of the step works in place.
objects_after_forward(prev_memory, prev_read, prev_write, new_memory, new_read, new_write) ==
  [given |-> [prev_memory_BxAxC |-> prev_memory,
              prev_read_attentions_BxAx1_H |-> prev_read,
              prev_write_attention_BxAx1 |-> prev_write],
   returned |-> [memory |-> "memory_BxAxC",
                 read_weights |-> "read_attentions_BxAx1_H",
                 write_weights |-> "write_attention_BxAx1"],
   created |-> [memory_BxAxC |-> new_memory,
                read_attentions_BxAx1_H |-> new_read,
                write_attention_BxAx1 |-> new_write]]

\* A step whose circular convolution raises returns nothing and leaves the
\* caller's state as it was.
Forward(read_params, write_params, max_steps) ==
  /\ steps < max_steps
  /\ ~convolution_raises(Len(memory[1]))
  /\ \E heads \in {HeadOutcomes(read_params, write_params)} :
     \E new_read \in [1..interface_num_read_heads ->
                        UNION {heads.read[i]
                                 : i \in 1..interface_num_read_heads}] :
     \E write \in heads.write :
       LET prev_memory == memory
           memory_BxAxC == write.memory
           read_vectors ==
             Tensor([i \in 1..interface_num_read_heads |->
                read_vector(new_read[i],
                            memory_read(prev_memory, memory_BxAxC))])
       IN  /\ \A i \in 1..interface_num_read_heads :
                new_read[i] \in heads.read[i]
           /\ read_attentions' = Tensor(new_read)
           /\ write_attention' = write.attention
           /\ memory' = memory_BxAxC
           /\ last' = [op |-> "forward",
                       prev_memory |-> prev_memory,
                       prev_read_attentions |-> read_attentions,
                       prev_write_attention |-> write_attention,
                       erase_vector |-> write.erase_vector,
                       add_vector |-> write.add_vector,
                       read_vectors |-> read_vectors,
                       negative |->
                         negative_entries(memory, write.attention,
                                          write.erase_vector,
                                          write.add_vector),
                       objects |->
                         objects_after_forward(
                           memory, read_attentions, write_attention,
                           memory_BxAxC, Tensor(new_read), write.attention)]
           /\ steps' = steps + 1
           /\ UNCHANGED <<config, ctrl_state, layer>>

\* ------------------------------------------------------------------------
\* Construction and the initial cell state
\* ------------------------------------------------------------------------
MaxShift == 1
MaxReadHeads == 1
MaxContentBits == 2
MaxAddr == 3

\* configurations the constructor accepts (lines 39-43)
ValidConfig(shift_size, num_read_heads) ==
  /\ shift_size % 2 # 0
  /\ shift_size > 0
  /\ num_read_heads >= 1

\* the all-zero memory [B][A][C]
ZeroMemory(B, A, C) ==
  Tensor([b \in 1..B |-> Tensor([a \in 1..A |-> Tensor([c \in 1..C |-> R0])])])

\* initial memories [1][A][C]: all zero, and rows that differ
InitMemories(A, C) ==
  {ZeroMemory(1, A, C),
   <<Tensor([a \in 1..A |-> Tensor([c \in 1..C |->
        IF a = 1 THEN R1 ELSE IF c = 1 /\ a = 2 THEN Q(1, 2) ELSE R0])])>>}

\* the cell state MAECell.init_state builds around an initial memory
InitWith(init_memories) ==
  /\ interface_shift_size = 2 * MaxShift + 1
  /\ interface_num_read_heads = MaxReadHeads
  /\ num_memory_content_bits = MaxContentBits
  /\ memory \in init_memories
  /\ read_attentions = init_state(Len(memory), Len(memory[1])).read_weights
  /\ write_attention = init_state(Len(memory), Len(memory[1])).write_weights
  /\ last = [op |-> "init"]
  /\ steps = 0
  /\ ctrl_state = Unset
  /\ layer = Unset

Init == InitWith(InitMemories(MaxAddr, MaxContentBits))

Next ==
  Forward(ReadParams(Gammas), WriteParams(Gammas, EraseVectors, AddVectors),
          MaxSteps)

Spec == Init /\ [][Next]_vars
\* ------------------------------------------------------------------------
\* Steps with sharpening factors far above 1
\* ------------------------------------------------------------------------
\* softplus(x) + 1 has no upper bound: a factor the controller can put out
GammaWide == 14
WideGammas == {1, GammaWide}

\* every vector [C] of sigmoid values
SigmoidVectors ==
  {Tensor(v) : v \in [1..num_memory_content_bits -> Sigmoids]}

\* the cell starts from an all-zero memory of AddrWide addresses
AddrWide == 10

InitWide == InitWith({ZeroMemory(1, AddrWide, MaxContentBits)})

NextWide ==
  Forward(ReadParams(WideGammas),
          WriteParams(WideGammas, SigmoidVectors, SigmoidVectors), MaxSteps)

SpecWide == InitWide /\ [][NextWide]_vars

\* ------------------------------------------------------------------------
\* Calls of the interface's functions on their own
\* ------------------------------------------------------------------------
\* the largest weight an attention given to a call is built from
MaxWeight == 2

\* attentions [A] given to a call: the distributions with weights 0..MaxWeight
Simplex(A) ==
  {normalize_p1(Tensor([a \in 1..A |-> Q(w[a], 1)]))
     : w \in {w \in [1..A -> 0..MaxWeight] : \E a \in 1..A : w[a] > 0}}

\* shift sizes of the called interfaces go up to 2 * MaxCallShift + 1
MaxCallShift == 2

\* An interface the constructor accepts, with a memory of A addresses; no
\* call has been made.
InitCall(shift_sizes, content_bits, addresses) ==
  /\ interface_shift_size \in {S \in shift_sizes : ValidConfig(S, MaxReadHeads)}
  /\ interface_num_read_heads = MaxReadHeads
  /\ num_memory_content_bits \in content_bits
  /\ memory \in {ZeroMemory(1, A, num_memory_content_bits) : A \in addresses}
  /\ read_attentions = init_state(Len(memory), Len(memory[1])).read_weights
  /\ write_attention = init_state(Len(memory), Len(memory[1])).write_weights
  /\ last = [op |-> "init"]
  /\ steps = 0
  /\ ctrl_state = Unset
  /\ layer = Unset

\* one call: its arguments and what it returns are kept in last
Call(record) ==
  /\ steps' = steps + 1
  /\ last' = record
  /\ UNCHANGED <<config, memory, read_attentions, write_attention,
                 ctrl_state, layer>>

\* circular_convolution(attention_BxAx1, shift_BxSx1, prev_memory_BxAxC)
CallCircularConvolution ==
  /\ steps = 0
  /\ \E attention \in Simplex(Len(memory[1])) : \E shift \in ShiftKernels :
    Call([op |-> "circular_convolution",
          attention |-> <<attention>>,
          shift |-> <<shift>>,
          raised |-> convolution_raises(Len(memory[1])),
          result |-> circular_convolution(<<attention>>, <<shift>>, memory)])

InitConv == InitCall(1..(2 * MaxCallShift + 1), {MaxContentBits}, 1..MaxAddr)
NextConv == CallCircularConvolution
SpecConv == InitConv /\ [][NextConv]_vars

\* the gating of update_attention (line 216)
CallGating ==
  /\ steps = 0
  /\ \E gate \in Sigmoids :
     \E content_attention \in Simplex(Len(memory[1])) :
     \E prev_attention \in Simplex(Len(memory[1])) :
       Call([op |-> "attention_after_gating",
          gate |-> <<gate>>,
          content_attention |-> <<content_attention>>,
          prev_attention |-> <<prev_attention>>,
          result |-> attention_after_gating(<<gate>>, <<content_attention>>,
                                            <<prev_attention>>)])

InitGate == InitCall({2 * MaxShift + 1}, {MaxContentBits}, 1..MaxAddr)
NextGate == CallGating
SpecGate == InitGate /\ [][NextGate]_vars

\* sharpening factors given to a call: 1..MaxCallGamma, and one far above
MaxCallGamma == 3
GammaSharp == 41
CallGammas == (1..MaxCallGamma) \cup {GammaSharp}

\* sharpening(attention_BxAx1, gamma_Bx1x1)
CallSharpening ==
  /\ steps = 0
  /\ \E attention \in Simplex(Len(memory[1])) : \E gamma \in CallGammas :
    Call([op |-> "sharpening",
          attention |-> <<attention>>,
          gamma |-> <<Q(gamma, 1)>>,
          result |-> sharpening(<<attention>>, <<Q(gamma, 1)>>)])

InitSharpen == InitCall({2 * MaxShift + 1}, {MaxContentBits}, 1..MaxAddr)
NextSharpen == CallSharpening
SpecSharpen == InitSharpen /\ [][NextSharpen]_vars

\* parameter tensors [B][P] whose entries are all different
MaxBatch == 2
MaxToken == 4
TokenParams(P) ==
  {Tensor([b \in 1..B |-> Tensor([j \in 1..P |-> t + (b - 1) * P + j])])
     : B \in 1..MaxBatch, t \in 0..MaxToken}

\* calculate_param_locations(param_sizes_dict, head_name), then
\* split_params(params, locations), as lines 51-52, 66-68, 120 and 139 use
\* them
CallSplitParams ==
  /\ steps = 0
  /\ \E head \in {<<read_param_sizes, num_read_params>>,
                  <<write_param_sizes, num_write_params>>} :
     \E params \in TokenParams(head[2]) :
       Call([op |-> "split_params",
          param_sizes_dict |-> head[1],
          params |-> params,
          locations |-> calculate_param_locations(head[1]),
          result |-> split_params(params, calculate_param_locations(head[1]))])

InitSplit == InitCall(1..(2 * MaxCallShift + 1), 1..MaxContentBits, {MaxAddr})
NextSplit == CallSplitParams
SpecSplit == InitSplit /\ [][NextSplit]_vars

\* ------------------------------------------------------------------------
\* Interface.__init__
\* ------------------------------------------------------------------------
AssertionError == "AssertionError"

\* torch.nn.Linear(in_features, out_features)
Linear(in_features, out_features) ==
  [in_features |-> in_features, out_features |-> out_features]

\* The object as an assertion leaves it: the attributes assigned before it,
\* no linear layer of the write head, and the read layers created so far.
Raised(params, message, num_read_heads, hidden2read_list) ==
  [raised |-> AssertionError,
   message |-> message,
   num_memory_content_bits |-> params.num_content_bits,
   interface_shift_size |-> params.shift_size,
   interface_num_read_heads |-> num_read_heads,
   hidden2read_list |-> hidden2read_list,
   hidden2write_params |-> <<>>]

\* read layers that put out no sharpening factor
read_layers_without_gamma(params) ==
  [i \in 1..params.num_read_heads |->
     Linear(params.hidden_state_size,
            params.num_content_bits + 1 + 1 + params.shift_size)]

\* lines 56-58: one linear layer per read head
read_layers(params) ==
  [i \in 1..params.num_read_heads |->
     Linear(params.hidden_state_size,
            params.num_content_bits + 1 + 1 + 1 + params.shift_size)]

\* the last entry of a list of locations (locations[-1])
LastLocation(locations) == locations[Len(locations)]

\* lines 46-72, reached when the assertions on the configuration hold
create_heads(params) ==
  IF params.num_content_bits + 1 + 1 + 1 + params.shift_size
       # LastLocation(calculate_param_locations(
           read_param_sizes_of(params.num_content_bits, params.shift_size)))
  THEN Raised(params,
              "Last location must be equal to number of read params.",
              params.num_read_heads, <<>>)
  ELSE IF 3 * params.num_content_bits + 1 + 1 + 1 + params.shift_size
            # LastLocation(calculate_param_locations(
                write_param_sizes_of(params.num_content_bits,
                                     params.shift_size)))
  THEN Raised(params,
              "Last location must be equal to number of write params.",
              params.num_read_heads, read_layers(params))
  ELSE [raised |-> "none",
        message |-> "",
        num_memory_content_bits |-> params.num_content_bits,
        interface_shift_size |-> params.shift_size,
        interface_num_read_heads |-> params.num_read_heads,
        hidden2read_list |-> read_layers(params),
        hidden2write_params |->
          <<Linear(params.hidden_state_size,
                   3 * params.num_content_bits + 1 + 1 + 1
                     + params.shift_size)>>]

\* a constructor that does not assert the shift size to be positive
construct_any_odd_shift(params) ==
  IF ~(params.shift_size % 2 # 0)
  THEN Raised(params, "Shift size must be an odd number", Unset, <<>>)
  ELSE IF ~(params.num_read_heads >= 1)
  THEN Raised(params, "NTM requires at least 1 read head",
              params.num_read_heads, <<>>)
  ELSE create_heads(params)

\* Interface.__init__(params), lines 36-72: what the object holds when the
\* constructor returns or raises
construct(params) ==
  IF ~(params.shift_size % 2 # 0)
  THEN Raised(params, "Shift size must be an odd number", Unset, <<>>)
  ELSE IF ~(params.shift_size > 0)
  THEN Raised(params, "Shift size must be > 0", Unset, <<>>)
  ELSE IF ~(params.num_read_heads >= 1)
  THEN Raised(params, "NTM requires at least 1 read head",
              params.num_read_heads, <<>>)
  ELSE create_heads(params)

\* configurations handed to the constructor
MaxHidden == 2
MaxConfigShift == 5
MaxConfigHeads == 2
ConfigParams ==
  [hidden_state_size : 1..MaxHidden,
   num_content_bits : 1..MaxContentBits,
   shift_size : (0 - MaxConfigShift)..MaxConfigShift,
   num_read_heads : (0 - 1)..MaxConfigHeads]

\* a dictionary of parameters, and no Interface yet
InitConstruct ==
  /\ last \in {[op |-> "params", params |-> params] : params \in ConfigParams}
  /\ interface_shift_size = Unset
  /\ interface_num_read_heads = Unset
  /\ num_memory_content_bits = Unset
  /\ memory = Unset
  /\ read_attentions = Unset
  /\ write_attention = Unset
  /\ steps = 0
  /\ ctrl_state = Unset
  /\ layer = Unset

\* Interface(params)
Construct ==
  /\ last.op = "params"
  /\ \E built \in {construct(last.params)} :
       /\ num_memory_content_bits' = built.num_memory_content_bits
       /\ interface_shift_size' = built.interface_shift_size
       /\ interface_num_read_heads' = built.interface_num_read_heads
       /\ last' = [op |-> "__init__", params |-> last.params,
                   raised |-> built.raised, message |-> built.message,
                   hidden2read_list |-> built.hidden2read_list,
                   hidden2write_params |-> built.hidden2write_params]
  /\ UNCHANGED <<memory, read_attentions, write_attention, steps,
                 ctrl_state, layer>>

NextConstruct == Construct
SpecConstruct == InitConstruct /\ [][NextConstruct]_vars

\* ------------------------------------------------------------------------
\* MAECell (src/models/encoder_solver/mae_cell.py)
\* ------------------------------------------------------------------------
\* The controller is a collaborator known by its contract only:
\* controller.init_state(batch_size) -> state and
\* controller(input, state) -> (hidden vector, new state).  Its values are
\* kept as terms, so that whatever a result depends on stays visible in it.
controller_init_state(batch_size) == <<"ctrl_init_state", batch_size>>

controller(inputs, prev_ctrl_state) ==
  [output |-> <<"hidden", inputs, prev_ctrl_state>>,
   state |-> <<"ctrl_state", inputs, prev_ctrl_state>>]

\* a memory [B][A][C] whose rows differ
PatternMemory(B, A, C) ==
  Tensor([b \in 1..B |-> Tensor([a \in 1..A |-> Tensor([c \in 1..C |->
     RDiv(R1, Q(a + b + c, 1))])])])

\* a cell whose interface has been constructed, and the initial memory its
\* init_state is about to be called with
InitCell ==
  /\ interface_shift_size \in {S \in 1..(2 * MaxShift + 1) : S % 2 # 0}
  /\ interface_num_read_heads \in 1..MaxConfigHeads
  /\ num_memory_content_bits \in 1..MaxContentBits
  /\ last \in {[op |-> "args", init_memory_BxAxC |-> m]
                 : m \in UNION {{ZeroMemory(B, A, num_memory_content_bits),
                                 PatternMemory(B, A, num_memory_content_bits)}
                                  : B \in 1..MaxBatch, A \in 1..MaxAddr}}
  /\ memory = Unset
  /\ read_attentions = Unset
  /\ write_attention = Unset
  /\ steps = 0
  /\ ctrl_state = Unset
  /\ layer = Unset

\* MAECell.init_state(init_memory_BxAxC), lines 124-143
MAECell_init_state ==
  /\ last.op = "args"
  /\ \E interface_init_state \in
          {init_state(Len(last.init_memory_BxAxC),
                      Len(last.init_memory_BxAxC[1]))} :
       /\ ctrl_state' = controller_init_state(Len(last.init_memory_BxAxC))
       /\ read_attentions' = interface_init_state.read_weights
       /\ write_attention' = interface_init_state.write_weights
       /\ memory' = last.init_memory_BxAxC
  /\ last' = [op |-> "init_state",
              init_memory_BxAxC |-> last.init_memory_BxAxC]
  /\ UNCHANGED <<config, steps, layer>>

NextCellInit == MAECell_init_state
SpecCellInit == InitCell /\ [][NextCellInit]_vars

\* What Interface.forward returns (line 162): the tuples
\* (read_vectors_BxC_H, memory_BxAxC, state_tuple) over the outcomes of the
\* heads.
forward_returns(heads, prev_memory) ==
  {<<Tensor([i \in 1..interface_num_read_heads |->
        read_vector(new_read[i], memory_read(prev_memory, write.memory))]),
     write.memory,
     [read_weights |-> Tensor(new_read), write_weights |-> write.attention]>>
     : new_read \in {r \in [1..interface_num_read_heads ->
                              UNION {heads.read[i]
                                       : i \in 1..interface_num_read_heads}] :
                       \A i \in 1..interface_num_read_heads :
                         r[i] \in heads.read[i]},
       write \in heads.write}

\* self.interface(ctrl_output_BxH, prev_memory_BxAxC, prev_interface_state):
\* the linear layers of the heads turn the hidden vector into parameter
\* vectors; their weights are free, so every parameter tensor can come out.
interface_forward(read_params, write_params) ==
  forward_returns(HeadOutcomes(read_params, write_params), memory)

ValueError == "ValueError"

\* a, b = values: Python raises ValueError unless there are exactly count
\* values
unpack_raises(values, count) == Len(values) # count

\* self.hidden2output(ctrl_output_BxH), line 165: a linear projection of
\* the hidden vector, kept as a term
hidden2output(ctrl_output_BxH) == <<"logits", ctrl_output_BxH>>

\* inputs_BxI of one timestep
CellInputs == {Tensor([b \in 1..Len(memory) |-> <<bit>>]) : bit \in {0, 1}}

\* sharpening factor 1 only
UnitGammas == {1}

\* the calls MAECell.forward makes, in order, with their arguments
cell_calls(inputs, hidden) ==
  << [fn |-> "controller", args |-> <<inputs, ctrl_state>>],
     [fn |-> "interface",
      args |-> <<hidden, memory,
                 [read_weights |-> read_attentions,
                  write_weights |-> write_attention]>>] >>

\* the step raises: nothing is returned and the caller keeps the state it
\* passed in
cell_raises(inputs, hidden, interface_result, error) ==
  /\ last' = [op |-> "cell_forward",
              raised |-> error,
              inputs |-> inputs,
              prev_cell_state |->
                <<ctrl_state,
                  [read_weights |-> read_attentions,
                   write_weights |-> write_attention],
                  memory>>,
              calls |-> cell_calls(inputs, hidden),
              interface_result |-> interface_result,
              logits |-> Unset,
              cell_state |-> Unset]
  /\ UNCHANGED <<memory, read_attentions, write_attention, ctrl_state>>

\* the step returns (logits_BxO, cell_state_tuple), lines 162-171
cell_returns(inputs, ctrl, interface_result) ==
  /\ memory' = interface_result[1]
  /\ read_attentions' = interface_result[2].read_weights
  /\ write_attention' = interface_result[2].write_weights
  /\ ctrl_state' = ctrl.state
  /\ last' = [op |-> "cell_forward",
              raised |-> "none",
              inputs |-> inputs,
              prev_cell_state |->
                <<ctrl_state,
                  [read_weights |-> read_attentions,
                   write_weights |-> write_attention],
                  memory>>,
              calls |-> cell_calls(inputs, ctrl.output),
              interface_result |-> interface_result,
              logits |-> hidden2output(ctrl.output),
              cell_state |-> <<ctrl.state, interface_result[2],
                               interface_result[1]>>]

\* MAECell.forward(inputs_BxI, prev_cell_state), lines 146-171, as one of at
\* most max_steps calls
MAECell_step(read_params, write_params, max_steps) ==
  /\ steps < max_steps
  /\ \E inputs \in CellInputs :
     \E ctrl \in {controller(inputs, ctrl_state)} :
       IF convolution_raises(Len(memory[1]))
       THEN cell_raises(inputs, ctrl.output, Unset, IndexError)
       ELSE \E interface_result \in
                 interface_forward(read_params, write_params) :
              IF unpack_raises(interface_result, 2)
              THEN cell_raises(inputs, ctrl.output, interface_result,
                               ValueError)
              ELSE cell_returns(inputs, ctrl, interface_result)
  /\ steps' = steps + 1
  /\ UNCHANGED <<config, layer>>

MAECell_forward(read_params, write_params) ==
  MAECell_step(read_params, write_params, MaxSteps)

\* the cell state MAECell.init_state builds around an initial memory
InitCellState ==
  /\ interface_shift_size = 2 * MaxShift + 1
  /\ interface_num_read_heads = MaxReadHeads
  /\ num_memory_content_bits = MaxContentBits
  /\ memory \in InitMemories(MaxAddr, MaxContentBits)
  /\ read_attentions = init_state(Len(memory), Len(memory[1])).read_weights
  /\ write_attention = init_state(Len(memory), Len(memory[1])).write_weights
  /\ ctrl_state = controller_init_state(Len(memory))
  /\ last = [op |-> "init_state", init_memory_BxAxC |-> memory]
  /\ steps = 0
  /\ layer = Unset

NextCell ==
  MAECell_forward(ReadParams(UnitGammas),
                  WriteParams(UnitGammas, EraseVectors, AddVectors))

SpecCell == InitCellState /\ [][NextCell]_vars

\* ------------------------------------------------------------------------
\* Steps of an interface with several read heads
\* ------------------------------------------------------------------------
\* attentions [1][A] a head can have come to: uniform, or all on the first or
\* on the last address
HeadAttentions(A) ==
  {<<Tensor([a \in 1..A |-> RDiv(R1, Q(A, 1))])>>,
   <<Tensor([a \in 1..A |-> IF a = 1 THEN R1 ELSE R0])>>,
   <<Tensor([a \in 1..A |-> IF a = A THEN R1 ELSE R0])>>}

\* a state of up to MaxConfigHeads read heads in the middle of a sequence:
\* every head has its own attention
InitHeads ==
  /\ interface_shift_size = 2 * MaxShift + 1
  /\ interface_num_read_heads \in 1..MaxConfigHeads
  /\ num_memory_content_bits = MaxContentBits
  /\ memory \in InitMemories(MaxAddr, MaxContentBits)
  /\ read_attentions \in
       {Tensor(r) : r \in [1..interface_num_read_heads
                             -> HeadAttentions(MaxAddr)]}
  /\ write_attention = init_state(Len(memory), Len(memory[1])).write_weights
  /\ last = [op |-> "init"]
  /\ steps = 0
  /\ ctrl_state = Unset
  /\ layer = Unset

\* parameters of the heads: the gate closed or half open, sharpening factor 1
HeadReadParams ==
  {p \in ReadParams(UnitGammas) :
     p[num_memory_content_bits + 2] \in {R0, Q(1, 2)}
       /\ p[num_memory_content_bits + 1] = R1}

HeadWriteParams ==
  {p \o e \o v : p \in HeadReadParams,
                 e \in {[c \in 1..num_memory_content_bits |-> R1]},
                 v \in {[c \in 1..num_memory_content_bits |-> Q(1, 2)]}}

NextHeads == Forward(HeadReadParams, HeadWriteParams, MaxSteps)
SpecHeads == InitHeads /\ [][NextHeads]_vars

\* ------------------------------------------------------------------------
\* Calls of circular_convolution on a batch
\* ------------------------------------------------------------------------
\* an interface with a memory of MaxBatch batch elements
InitConvBatch ==
  /\ interface_shift_size = 2 * MaxShift + 1
  /\ interface_num_read_heads = MaxReadHeads
  /\ num_memory_content_bits = MaxContentBits
  /\ memory \in {ZeroMemory(MaxBatch, A, MaxContentBits) : A \in 1..MaxAddr}
  /\ read_attentions = init_state(Len(memory), Len(memory[1])).read_weights
  /\ write_attention = init_state(Len(memory), Len(memory[1])).write_weights
  /\ last = [op |-> "init"]
  /\ steps = 0
  /\ ctrl_state = Unset
  /\ layer = Unset

\* circular_convolution(attention_BxAx1, shift_BxSx1, prev_memory_BxAxC) with
\* an attention and a kernel of its own for every batch element
CallCircularConvolutionBatch ==
  /\ steps = 0
  /\ \E attention \in [1..Len(memory) ->
                         {h[1] : h \in HeadAttentions(Len(memory[1]))}] :
     \E shift \in [1..Len(memory) -> ShiftKernels] :
       Call([op |-> "circular_convolution",
             attention |-> Tensor(attention),
             shift |-> Tensor(shift),
             raised |-> convolution_raises(Len(memory[1])),
             result |-> circular_convolution(Tensor(attention), Tensor(shift),
                                             memory)])

NextConvBatch == CallCircularConvolutionBatch
SpecConvBatch == InitConvBatch /\ [][NextConvBatch]_vars

\* ------------------------------------------------------------------------
\* Calls of content_based_addressing
\* ------------------------------------------------------------------------
\* memory rows [C]: the all-zero row and rows that are not zero
MemoryRows ==
  {[c \in 1..num_memory_content_bits |-> R0],
   [c \in 1..num_memory_content_bits |-> IF c = 1 THEN R1 ELSE R0],
   [c \in 1..num_memory_content_bits |-> IF c = 1 THEN Q(1, 2) ELSE R1]}

\* queries [C] after the sigmoid of line 199
ContentQueries ==
  QueryVectors \cup {[c \in 1..num_memory_content_bits |-> Q(1, 2)]}

\* an interface with a memory [1][A][C] of rows of MemoryRows
InitContent ==
  /\ interface_shift_size = 2 * MaxShift + 1
  /\ interface_num_read_heads = MaxReadHeads
  /\ num_memory_content_bits = MaxContentBits
  /\ memory \in {<<Tensor(rows)>> : rows \in [1..MaxAddr -> MemoryRows]}
  /\ read_attentions = init_state(Len(memory), Len(memory[1])).read_weights
  /\ write_attention = init_state(Len(memory), Len(memory[1])).write_weights
  /\ last = [op |-> "init"]
  /\ steps = 0
  /\ ctrl_state = Unset
  /\ layer = Unset

\* content_based_addressing(query_vector_Bx1xC, beta_Bx1x1, prev_memory_BxAxC);
\* similarity2 keeps, for every address, the square of the similarity of
\* line 242 up to the positive factor of the query's norm
CallContentBasedAddressing ==
  /\ steps = 0
  /\ \E query \in ContentQueries : \E beta \in Betas :
     \E attention \in content_based_addressing(<<query>>, <<beta>>, memory) :
       Call([op |-> "content_based_addressing",
             query_vector |-> <<query>>,
             beta |-> <<beta>>,
             similarity2 |-> <<similarity_keys(row_dots(query, memory[1]),
                                               row_norms(memory[1]))>>,
             result |-> attention])

NextContent == CallContentBasedAddressing
SpecContent == InitContent /\ [][NextContent]_vars

\* ------------------------------------------------------------------------
\* Sequences of steps of the interface
\* ------------------------------------------------------------------------
\* the number of steps of a sequence
MaxSequence == 2

\* the read head keeps its attention: gate 0, strength 1, the uniform kernel,
\* sharpening factor 1
StepReadParams ==
  {q \o <<R1>> \o <<R0>> \o sh \o <<R1>> :
     q \in QueryVectors,
     sh \in {[s \in 1..interface_shift_size |->
                RDiv(R1, Q(interface_shift_size, 1))]}}

\* the write head: the gate closed or half open, every kernel, the erase and
\* add vectors
StepWriteParams ==
  {q \o <<R1>> \o <<g>> \o sh \o <<R1>> \o e \o v :
     q \in QueryVectors, g \in {R0, Q(1, 2)}, sh \in ShiftKernels,
     e \in EraseVectors, v \in AddVectors}

InitSteps == InitWith(InitMemories(MaxAddr, MaxContentBits))
NextSteps == Forward(StepReadParams, StepWriteParams, MaxSequence)
SpecSteps == InitSteps /\ [][NextSteps]_vars

\* ------------------------------------------------------------------------
\* Sequences of steps of the cell
\* ------------------------------------------------------------------------
\* a cell state in the middle of a sequence: any memory and any attention of
\* the read head, and the controller state of the start
InitCellSequence ==
  /\ interface_shift_size = 2 * MaxShift + 1
  /\ interface_num_read_heads = MaxReadHeads
  /\ num_memory_content_bits = MaxContentBits
  /\ memory \in InitMemories(MaxAddr, MaxContentBits)
  /\ read_attentions \in
       {Tensor(r) : r \in [1..interface_num_read_heads
                             -> HeadAttentions(MaxAddr)]}
  /\ write_attention \in HeadAttentions(MaxAddr)
  /\ ctrl_state = controller_init_state(Len(memory))
  /\ last = [op |-> "init_state", init_memory_BxAxC |-> memory]
  /\ steps = 0
  /\ layer = Unset

\* the caller passes the state a step returns to the next step; a step that
\* raises ends the sequence
MAECell_sequence_step ==
  /\ last.op = "cell_forward" => last.raised = "none"
  /\ MAECell_step(StepReadParams, StepWriteParams, MaxSequence)

NextCellSequence == MAECell_sequence_step
SpecCellSequence == InitCellSequence /\ [][NextCellSequence]_vars

\* ------------------------------------------------------------------------
\* MAECell.save
\* ------------------------------------------------------------------------
\* the parameters of a linear layer, as terms
layer_parameters(prefix, linear) ==
  {<<prefix, "weight", linear>>, <<prefix, "bias", linear>>}

\* state_dict() of torch.nn.Module holds the parameters of the modules that
\* are registered, and a module is registered when it is assigned to an
\* attribute.  Of the linear layers of the Interface only
\* self.hidden2write_params is such an attribute (line 72); the layers of the
\* read heads are the elements of a plain Python list,
\* self.hidden2read_list (lines 56-58), which registers nothing.
interface_state_dict(hidden2read_list, hidden2write_params) ==
  UNION {layer_parameters("hidden2write_params", hidden2write_params[i])
           : i \in 1..Len(hidden2write_params)}

\* self.controller.state_dict(): the parameters of the controller, a term
controller_state_dict == {<<"controller", "parameters", "of the controller">>}

\* episodes a checkpoint is saved at
MaxEpisode == 1

\* a constructed cell with the state init_state has built
InitSave ==
  /\ last \in {[op |-> "__init__", params |-> params,
                built |-> construct(params)]
                 : params \in {p \in ConfigParams :
                                 construct(p).raised = "none"}}
  /\ interface_shift_size = last.built.interface_shift_size
  /\ interface_num_read_heads = last.built.interface_num_read_heads
  /\ num_memory_content_bits = last.built.num_memory_content_bits
  /\ memory \in {PatternMemory(B, A, num_memory_content_bits)
                   : B \in 1..MaxBatch, A \in 1..MaxAddr}
  /\ read_attentions = init_state(Len(memory), Len(memory[1])).read_weights
  /\ write_attention = init_state(Len(memory), Len(memory[1])).write_weights
  /\ ctrl_state = controller_init_state(Len(memory))
  /\ steps = 0
  /\ layer = Unset

\* MAECell.save(model_dir, episode), lines 87-106: the dictionary that is
\* written to the file
MAECell_save ==
  /\ last.op = "__init__"
  /\ \E episode \in 0..MaxEpisode :
       last' = [op |-> "save",
                params |-> last.params,
                built |-> last.built,
                encoder_filename |-> <<"encoder_episode", episode>>,
                saved_dict |->
                  [episode |-> episode,
                   ctrl_dict |-> controller_state_dict,
                   interface_dict |->
                     interface_state_dict(last.built.hidden2read_list,
                                          last.built.hidden2write_params)]]
  /\ UNCHANGED <<config, memory, read_attentions, write_attention, steps,
                 ctrl_state, layer>>

NextSave == MAECell_save
SpecSave == InitSave /\ [][NextSave]_vars

\* ------------------------------------------------------------------------
\* NTM (src/ntm/ntm_layer.py)
\* ------------------------------------------------------------------------
\* None of Python, and a value that is not None
None == [is_none |-> TRUE]
Some(value) == [is_none |-> FALSE, value |-> value]

\* self.NTMCell(x[..., j, :], state): the cell of the layer is a
\* collaborator known by its contract only, cell(input, state) ->
\* (output or None, new state).  Output and state are kept as terms.
NTMCell(input, state) ==
  {<<tm_output, <<"state", input, state>>>>
     : tm_output \in {None, Some(<<"output", input, state>>)}}

\* tm_output[..., None, :]: a time axis of length 1 (line 43)
unsqueeze_time(tm_output) == <<tm_output>>

\* an accumulation that starts from an empty sequence in place of None
accumulate_from_empty(output, tm_output) ==
  IF tm_output.is_none
  THEN (IF output.is_none THEN Some(<<>>) ELSE output)
  ELSE IF output.is_none THEN Some(unsqueeze_time(tm_output.value))
  ELSE Some(output.value \o unsqueeze_time(tm_output.value))

\* an accumulation that puts the new output in front
accumulate_in_front(output, tm_output) ==
  IF tm_output.is_none THEN output
  ELSE IF output.is_none THEN Some(unsqueeze_time(tm_output.value))
  ELSE Some(unsqueeze_time(tm_output.value) \o output.value)

\* lines 40-49: what output is after a call that returned tm_output; the
\* value under Some is the sequence of outputs along the time axis
accumulate(output, tm_output) ==
  IF tm_output.is_none THEN output
  ELSE IF output.is_none THEN Some(unsqueeze_time(tm_output.value))
  ELSE Some(output.value \o unsqueeze_time(tm_output.value))

\* a call of the cell that is given the state the layer was called with
cell_call_on_given_state(locals, j) ==
  NTMCell(locals.x[j + 1], locals.given_state)

\* line 32: the call of the cell on timestep j (x is kept as the sequence of
\* its timesteps, counted from 0)
cell_call(locals, j) == NTMCell(locals.x[j + 1], locals.state)

\* inputs of at most MaxTime timesteps
MaxTime == 3
LayerInputs == UNION {[1..T -> {0, 1}] : T \in 0..MaxTime}

\* NTM.forward(x, state) has been called: output = None (line 30), the loop
\* is about to start
InitLayer ==
  /\ layer \in {[pc |-> "loop", x |-> Tensor(x), j |-> 0, output |-> None,
                 given_state |-> <<"state0">>, state |-> <<"state0">>,
                 calls |-> <<>>]
                  : x \in LayerInputs}
  /\ last = [op |-> "ntm_forward"]
  /\ interface_shift_size = Unset
  /\ interface_num_read_heads = Unset
  /\ num_memory_content_bits = Unset
  /\ memory = Unset
  /\ read_attentions = Unset
  /\ write_attention = Unset
  /\ ctrl_state = Unset
  /\ steps = 0

\* one pass of the loop of lines 31-49
NTM_timestep ==
  /\ layer.pc = "loop"
  /\ layer.j < Len(layer.x)
  /\ \E result \in cell_call(layer, layer.j) :
       layer' = [layer EXCEPT
                   !.j = layer.j + 1,
                   !.output = accumulate(layer.output, result[1]),
                   !.state = result[2],
                   !.calls = Append(layer.calls,
                                    [timestep |-> layer.j,
                                     tm_output |-> result[1],
                                     new_state |-> result[2]])]
  /\ UNCHANGED <<config, memory, read_attentions, write_attention, last,
                 steps, ctrl_state>>

\* line 51: return output, state
NTM_return ==
  /\ layer.pc = "loop"
  /\ layer.j = Len(layer.x)
  /\ layer' = [layer EXCEPT !.pc = "done"]
  /\ last' = [op |-> "ntm_forward", returned |-> <<layer.output, layer.state>>]
  /\ UNCHANGED <<config, memory, read_attentions, write_attention, steps,
                 ctrl_state>>

NextLayer == NTM_timestep \/ NTM_return
SpecLayer == InitLayer /\ [][NextLayer]_vars

\* the interpreter runs the loop on: a pass that can be made is made
SpecLayerFair == SpecLayer /\ WF_vars(NextLayer)

\* ------------------------------------------------------------------------
\* Properties of Interface.forward
\* ------------------------------------------------------------------------
Batches == 1..Len(memory)
Addresses == 1..Len(memory[1])
ContentBits == 1..num_memory_content_bits
ReadHeads == 1..interface_num_read_heads

OneHotAt(attention, a) ==
  \A x \in 1..Len(attention) : attention[x] = (IF x = a THEN R1 ELSE R0)

\* sum over the addresses a of attention[a] * mem[a][c]
WeightedRow(attention, mem, c) ==
  RSum([a \in 1..Len(mem) |-> RMul(attention[a], mem[a][c])])

\* C1: within one forward step every read vector is the attention-weighted
\* sum of the rows of prev_memory, the memory passed into the step; a read
\* attention that is one-hot at address a gives row a of prev_memory, also
\* when the write of the same step changes that row.
C1_ReadsSeePrevMemory ==
  last.op = "forward" =>
    \A i \in ReadHeads : \A b \in Batches :
      /\ \A c \in ContentBits :
           last.read_vectors[i][b][c]
             = WeightedRow(read_attentions[i][b], last.prev_memory[b], c)
      /\ \A a \in Addresses :
           OneHotAt(read_attentions[i][b], a)
             => last.read_vectors[i][b] = last.prev_memory[b][a]

\* a step whose read attention is one-hot at an address whose row the write
\* of the same step has changed
C1_Witness ==
  /\ last.op = "forward"
  /\ \E i \in ReadHeads : \E b \in Batches : \E a \in Addresses :
       /\ OneHotAt(read_attentions[i][b], a)
       /\ memory[b][a] # last.prev_memory[b][a]
       /\ last.read_vectors[i][b] = last.prev_memory[b][a]

\* C2: the memory a forward step returns is, entry by entry,
\* prev_memory * (1 - w * erase) + w * add, where w is the write attention
\* computed in this same step.
C2_MemoryUpdate ==
  last.op = "forward" =>
    \A b \in Batches : \A a \in Addresses : \A c \in ContentBits :
      memory[b][a][c]
        = RAdd(RMul(last.prev_memory[b][a][c],
                    RSub(R1, RMul(write_attention[b][a],
                                  last.erase_vector[b][c]))),
               RMul(write_attention[b][a], last.add_vector[b][c]))

\* a step whose write attention differs from the one before and whose write
\* changes a memory that was not all zero
C2_Witness ==
  /\ last.op = "forward"
  /\ write_attention # last.prev_write_attention
  /\ memory # last.prev_memory
  /\ \E b \in Batches : \E a \in Addresses : \E c \in ContentBits :
       last.prev_memory[b][a][c] # R0 /\ memory[b][a][c] # R0

\* C3: a write whose attention is one-hot at address a, with an erase vector
\* of all 1 and add vector v, makes row a of the memory v whatever it held,
\* leaves every other row as it was, and a read of the new memory with the
\* same one-hot attention gives v.
C3_OneHotWriteRoundTrip ==
  last.op = "forward" =>
    \A b \in Batches : \A a \in Addresses :
      (/\ OneHotAt(write_attention[b], a)
       /\ \A c \in ContentBits : last.erase_vector[b][c] = R1)
      => /\ memory[b][a] = last.add_vector[b]
         /\ \A x \in Addresses \ {a} : memory[b][x] = last.prev_memory[b][x]
         /\ read_vector(write_attention, memory)[b] = last.add_vector[b]

\* a one-hot write with erase vector all 1 onto a row that held something
\* else than the add vector, next to another row that is not zero
C3_Witness ==
  /\ last.op = "forward"
  /\ \E b \in Batches : \E a \in Addresses :
       /\ OneHotAt(write_attention[b], a)
       /\ \A c \in ContentBits : last.erase_vector[b][c] = R1
       /\ \E c \in ContentBits : last.prev_memory[b][a][c] # R0
       /\ last.prev_memory[b][a] # last.add_vector[b]
       /\ memory[b][a] = last.add_vector[b]
       /\ \E x \in Addresses \ {a} : \E c \in ContentBits :
            memory[b][x][c] # R0

\* C6: in every reachable state every read attention and the write attention
\* is non-negative and sums to 1 over the addresses, for every batch element.
\* (Entries are ratios of naturals, so none is negative.)
C6_AttentionsOnSimplex ==
  /\ \A i \in ReadHeads : \A b \in Batches : RSum(read_attentions[i][b]) = R1
  /\ \A b \in Batches : RSum(write_attention[b]) = R1

\* ------------------------------------------------------------------------
\* Properties of the interface's functions
\* ------------------------------------------------------------------------
\* address (idx mod A) of a 0-based position, as a 1-based index
WrappedAddress(idx, num_addr) == (idx % num_addr) + 1

\* C4: for every odd shift size S > 0 and every address count A,
\* circular_convolution returns A entries per batch element, with
\* shifted[a] = sum over s in 0..S-1 of gated[(a + s - S//2) mod A] * kernel[s]
\* for every address a in 0..A-1.
C4_CircularConvolution ==
  last.op = "circular_convolution" =>
    /\ ~last.raised
    /\ \A b \in Batches :
         /\ Len(last.result[b]) = Len(memory[1])
         /\ \A a \in 0..(Len(memory[1]) - 1) :
              last.result[b][a + 1]
                = RSum([s \in 1..interface_shift_size |->
                     RMul(last.attention[b][
                            WrappedAddress(a + (s - 1)
                                             - (interface_shift_size \div 2),
                                           Len(memory[1]))],
                          last.shift[b][s])])

\* C5: the circular convolution of an attention that is one-hot at address a
\* with a shift kernel that is one-hot at offset k (kernel position
\* k + S//2) is one-hot at address (a + k) mod A.
C5_OneHotShift ==
  last.op = "circular_convolution" =>
    \A b \in Batches : \A a \in 0..(Len(memory[1]) - 1) :
    \A k \in (0 - (interface_shift_size \div 2))..(interface_shift_size \div 2) :
      (/\ OneHotAt(last.attention[b], a + 1)
       /\ OneHotAt(last.shift[b], k + (interface_shift_size \div 2) + 1))
      => /\ ~last.raised
         /\ OneHotAt(last.result[b], WrappedAddress(a + k, Len(memory[1])))

\* C7: the gated attention is gate * content_attention
\* + (1 - gate) * prev_attention entry by entry; with gate = 1 it is the
\* content attention and with gate = 0 the previous attention.
C7_Gating ==
  last.op = "attention_after_gating" =>
    \A b \in Batches :
      /\ \A a \in Addresses :
           last.result[b][a]
             = RAdd(RMul(last.gate[b], last.content_attention[b][a]),
                    RMul(RSub(R1, last.gate[b]), last.prev_attention[b][a]))
      /\ last.gate[b] = R1 => last.result[b] = last.content_attention[b]
      /\ last.gate[b] = R0 => last.result[b] = last.prev_attention[b]

\* a gating with gate = 1 of a content attention and a previous attention
\* that differ
C7_Witness ==
  /\ last.op = "attention_after_gating"
  /\ \E b \in Batches :
       /\ last.gate[b] = R1
       /\ last.content_attention[b] # last.prev_attention[b]
       /\ last.result[b] = last.content_attention[b]

\* whether all entries of an attention are equal
Uniform(attention) ==
  \A x, y \in 1..Len(attention) : attention[x] = attention[y]

\* C8: sharpening with gamma = 1 returns its input unchanged, for every
\* attention that is non-negative and sums to 1.
C8_SharpeningByOne ==
  (last.op = "sharpening" /\ \A b \in Batches : RSum(last.attention[b]) = R1)
    => \A b \in Batches :
         last.gamma[b] = R1 => last.result[b] = last.attention[b]

\* a sharpening with gamma = 1 of an attention that is neither uniform nor
\* one-hot
C8_Witness ==
  /\ last.op = "sharpening"
  /\ \E b \in Batches :
       /\ last.gamma[b] = R1
       /\ RSum(last.attention[b]) = R1
       /\ ~Uniform(last.attention[b])
       /\ \A a \in Addresses : ~OneHotAt(last.attention[b], a)
       /\ last.result[b] = last.attention[b]

\* C9: for every attention that is not uniform and every gamma2 > gamma1 >= 1
\* the largest entry of sharpening(attention, gamma2) is strictly greater
\* than the largest entry of sharpening(attention, gamma1).
C9_SharpeningRaisesMax ==
  last.op = "sharpening" =>
    \A b \in Batches :
      ~Uniform(last.attention[b]) =>
        \A gamma1 \in {g \in CallGammas : Q(g, 1) = last.gamma[b]} :
        \A gamma2 \in {g \in CallGammas : g > gamma1} :
          RLess(RMaxOf(last.result[b]),
                RMaxOf(sharpening(last.attention,
                                 [x \in Batches |-> Q(gamma2, 1)])[b]))

\* the slices i..n of batch element b, one after the other
RECURSIVE Concatenated(_, _, _)
Concatenated(splits, b, i) ==
  IF i > Len(splits) THEN <<>>
  ELSE splits[i][b] \o Concatenated(splits, b, i + 1)

\* C10: calculate_param_locations returns boundaries that start at 0 and are
\* the cumulative sums of the declared widths in declaration order;
\* split_params returns one slice per declared parameter, in declared order,
\* slice i being the positions [boundaries[i], boundaries[i+1]) of the last
\* dimension; the slices are pairwise disjoint, contiguous, have the declared
\* widths, and concatenated they give back the whole flat vector.
C10_SplitParams ==
  last.op = "split_params" =>
    /\ Len(last.locations) = Len(last.param_sizes_dict) + 1
    /\ last.locations[1] = 0
    /\ \A i \in 1..Len(last.param_sizes_dict) :
         last.locations[i + 1]
           = last.locations[i] + last.param_sizes_dict[i][2]
    /\ Len(last.result) = Len(last.param_sizes_dict)
    /\ \A i \in 1..Len(last.result) : \A b \in 1..Len(last.params) :
         /\ Len(last.result[i][b]) = last.param_sizes_dict[i][2]
         /\ \A j \in 1..Len(last.result[i][b]) :
              last.result[i][b][j] = last.params[b][last.locations[i] + j]
    /\ \A b \in 1..Len(last.params) :
         /\ \A pos \in 0..(Len(last.params[b]) - 1) :
              Cardinality({i \in 1..Len(last.result) :
                             /\ last.locations[i] <= pos
                             /\ pos < last.locations[i + 1]}) = 1
         /\ Concatenated(last.result, b, 1) = last.params[b]

\* a split of the write head's parameters for two batch elements, with a
\* shift of several entries and content vectors of several bits
C10_Witness ==
  /\ last.op = "split_params"
  /\ last.param_sizes_dict = write_param_sizes
  /\ Len(last.params) > 1
  /\ interface_shift_size > 1
  /\ num_memory_content_bits > 1
  /\ Len(last.result) = 7
  /\ last.result[6] # last.result[7]

\* C11: the construction of an Interface succeeds if and only if shift_size
\* is odd, shift_size > 0 and num_read_heads >= 1; every configuration with an
\* even shift size, a zero or negative shift size, or no read head fails with
\* an assertion before any head is created.
C11_ConstructionValidates ==
  last.op = "__init__" =>
    /\ last.raised = "none"
         <=> (/\ last.params.shift_size % 2 = 1
              /\ last.params.shift_size > 0
              /\ last.params.num_read_heads >= 1)
    /\ last.raised # "none"
         => /\ last.raised = AssertionError
            /\ last.hidden2read_list = <<>>
            /\ last.hidden2write_params = <<>>
    /\ last.raised = "none"
         => /\ Len(last.hidden2read_list) = last.params.num_read_heads
            /\ Len(last.hidden2write_params) = 1

\* a construction that an odd but negative shift size has made fail
C11_Witness ==
  /\ last.op = "__init__"
  /\ last.params.shift_size % 2 = 1
  /\ last.params.shift_size < 0
  /\ last.params.num_read_heads >= 1
  /\ last.raised = AssertionError
  /\ last.hidden2read_list = <<>>

\* C12: the initial state built for a memory of batch size B and A addresses
\* holds exactly num_read_heads read attentions and one write attention, each
\* of B vectors of A entries that all are 1/A, and the memory of the initial
\* cell state is the given initial memory.
C12_InitialState ==
  last.op = "init_state" =>
    /\ Len(read_attentions) = interface_num_read_heads
    /\ \A i \in 1..Len(read_attentions) :
         /\ Len(read_attentions[i]) = Len(last.init_memory_BxAxC)
         /\ \A b \in 1..Len(read_attentions[i]) :
              /\ Len(read_attentions[i][b]) = Len(last.init_memory_BxAxC[b])
              /\ \A a \in 1..Len(read_attentions[i][b]) :
                   read_attentions[i][b][a]
                     = Q(1, Len(last.init_memory_BxAxC[b]))
    /\ Len(write_attention) = Len(last.init_memory_BxAxC)
    /\ \A b \in 1..Len(write_attention) :
         /\ Len(write_attention[b]) = Len(last.init_memory_BxAxC[b])
         /\ \A a \in 1..Len(write_attention[b]) :
              write_attention[b][a] = Q(1, Len(last.init_memory_BxAxC[b]))
    /\ memory = last.init_memory_BxAxC

\* an initial state of two read heads for a memory of two batch elements and
\* three addresses that is not all zero
C12_Witness ==
  /\ last.op = "init_state"
  /\ Len(read_attentions) = 2
  /\ Len(memory) = 2
  /\ Len(memory[1]) = 3
  /\ memory[1][1][1] # R0
  /\ write_attention[2][3] = Q(1, 3)

\* C13: a step of the cell on the previous state (ctrlState, ifaceState,
\* memory) calls the controller once on (input, ctrlState), then the
\* interface step once on (hiddenVec, memory, ifaceState), whose result is the
\* triple (readVectors, newMemory, newIfaceState), and returns the new state
\* (newCtrlState, newIfaceState, newMemory) built from exactly those results.
C13_CellStep ==
  last.op = "cell_forward" =>
    /\ last.raised = "none"
    /\ last.calls
         = << [fn |-> "controller",
               args |-> <<last.inputs, last.prev_cell_state[1]>>],
              [fn |-> "interface",
               args |-> <<controller(last.inputs,
                                     last.prev_cell_state[1]).output,
                          last.prev_cell_state[3],
                          last.prev_cell_state[2]>>] >>
    /\ Len(last.interface_result) = 3
    /\ last.cell_state
         = <<controller(last.inputs, last.prev_cell_state[1]).state,
             last.interface_result[3],
             last.interface_result[2]>>
    /\ ctrl_state = last.cell_state[1]
    /\ read_attentions = last.cell_state[2].read_weights
    /\ write_attention = last.cell_state[2].write_weights
    /\ memory = last.cell_state[3]

ThreadedState(k) ==
  IF k = 1 THEN layer.given_state ELSE layer.calls[k - 1].new_state

\* the calls made so far are the calls on the timesteps 0, 1, ... in
\* increasing order, each on its timestep's input and the threaded state
CallsInOrder ==
  /\ Len(layer.calls) = layer.j
  /\ layer.j <= Len(layer.x)
  /\ \A k \in 1..Len(layer.calls) :
       /\ layer.calls[k].timestep = k - 1
       /\ layer.calls[k].new_state
            = <<"state", layer.x[k], ThreadedState(k)>>

\* the layer has returned after exactly T calls, with the state the last call
\* has produced (the given state when there was no timestep)
ReturnedAfterAllCalls ==
  layer.pc = "done" =>
    /\ Len(layer.calls) = Len(layer.x)
    /\ last.returned[2] = ThreadedState(Len(layer.x) + 1)

\* C15: for an input of T timesteps the layer calls the cell exactly T times,
\* on the timesteps 0, 1, ..., T-1 in increasing order, each call receiving
\* the state the call before has returned (the given state for timestep 0),
\* also on timesteps whose output is None; it then terminates and returns the
\* state the last call has produced.
C15_CellCalledInOrder ==
  /\ [](CallsInOrder /\ ReturnedAfterAllCalls)
  /\ <>(layer.pc = "done")

\* the layer has returned after three timesteps of which the second had no
\* output
C15_Witness ==
  /\ layer.pc = "done"
  /\ Len(layer.x) = 3
  /\ Len(layer.calls) = 3
  /\ ~layer.calls[1].tm_output.is_none
  /\ layer.calls[2].tm_output.is_none
  /\ last.returned[2] = layer.calls[3].new_state

\* the outputs that are not None of a sequence of calls, in the order of the
\* calls
RECURSIVE OutputsOf(_)
OutputsOf(calls) ==
  IF calls = <<>> THEN <<>>
  ELSE IF calls[Len(calls)].tm_output.is_none
  THEN OutputsOf(SubSeq(calls, 1, Len(calls) - 1))
  ELSE Append(OutputsOf(SubSeq(calls, 1, Len(calls) - 1)),
              calls[Len(calls)].tm_output.value)

\* C16 as claimed: the output sequence the layer returns holds, along the
\* time axis and in timestep order, exactly the outputs of the timesteps
\* whose cell output is not None; its time length is the number of such
\* timesteps, which is T when every timestep produces an output.
C16_OutputSequence ==
  layer.pc = "done" =>
    /\ ~last.returned[1].is_none
    /\ last.returned[1].value = OutputsOf(layer.calls)
    /\ Len(last.returned[1].value)
         = Cardinality({k \in 1..Len(layer.calls) :
                          ~layer.calls[k].tm_output.is_none})

\* C16 as amended: when at least one timestep has an output that is not
\* None, the layer returns the sequence of exactly those outputs in timestep
\* order, of as many entries as there are such timesteps (T when every
\* timestep produces an output); when no timestep has one, T = 0 included,
\* it returns None in place of an output sequence.
C16_OutputSequenceOrNone ==
  layer.pc = "done" =>
    IF \A k \in 1..Len(layer.calls) : layer.calls[k].tm_output.is_none
    THEN last.returned[1].is_none
    ELSE /\ ~last.returned[1].is_none
         /\ last.returned[1].value = OutputsOf(layer.calls)
         /\ Len(last.returned[1].value)
              = Cardinality({k \in 1..Len(layer.calls) :
                               ~layer.calls[k].tm_output.is_none})
         /\ (\A k \in 1..Len(layer.calls) :
               ~layer.calls[k].tm_output.is_none)
              => Len(last.returned[1].value) = Len(layer.x)

\* the layer has returned the outputs of the first and the third of three
\* timesteps, the second having none
C16_Witness ==
  /\ layer.pc = "done"
  /\ Len(layer.calls) = 3
  /\ ~layer.calls[1].tm_output.is_none
  /\ layer.calls[2].tm_output.is_none
  /\ ~layer.calls[3].tm_output.is_none
  /\ ~last.returned[1].is_none
  /\ last.returned[1].value
       = <<layer.calls[1].tm_output.value, layer.calls[3].tm_output.value>>

Persisted == last.saved_dict.ctrl_dict \cup last.saved_dict.interface_dict

\* C18: the state the checkpoint persists (the controller's state dict and
\* the interface's state dict) holds the weights of the linear layer of every
\* read head and of the write head, and none of the runtime state of a
\* sequence (attentions, memory, controller state).
C18_CheckpointHoldsHeadWeights ==
  last.op = "save" =>
    /\ \A i \in 1..Len(last.built.hidden2read_list) :
         \E entry \in Persisted :
           entry[2] = "weight" /\ entry[3] = last.built.hidden2read_list[i]
    /\ \A i \in 1..Len(last.built.hidden2write_params) :
         \E entry \in Persisted :
           entry[2] = "weight" /\ entry[3] = last.built.hidden2write_params[i]
    /\ \A entry \in Persisted :
         entry[1] \in {"controller", "hidden2read_list",
                       "hidden2write_params"}

\* C19: for every accepted shift size S (odd, > 0) and every address count
\* A >= 1, each index of the extended index list built in
\* circular_convolution is a valid address in 0..A-1 and equals (idx mod A)
\* for its source position idx in -(S//2) .. A-1+S//2.
C19_ExtendedIndicesValid ==
  last.op = "circular_convolution" =>
    /\ Len(ext_indices(Len(memory[1]), interface_shift_size))
         = Len(memory[1]) + 2 * (interface_shift_size \div 2)
    /\ \A j \in 1..Len(ext_indices(Len(memory[1]), interface_shift_size)) :
         /\ ext_indices(Len(memory[1]), interface_shift_size)[j]
              \in 0..(Len(memory[1]) - 1)
         /\ ext_indices(Len(memory[1]), interface_shift_size)[j]
              = (j - 1 - (interface_shift_size \div 2)) % Len(memory[1])

\* the attentions read head i can come to in one step from a previous
\* attention, over the parameter tensors of SpecHeads
HeadAttentionsFrom(prev_memory, prev_attention) ==
  attention_outcomes(
    {split_params(p, read_param_locations)
       : p \in Batched(HeadReadParams, Len(prev_memory))},
    prev_memory, prev_attention)

\* C20: the state Interface.forward returns holds exactly num_read_heads read
\* attentions in head order and one write attention; entry i is the attention
\* read head i has computed in this step from its own previous attention
\* prev_read_attentions[i], and it replaces the previous entry i.
C20_HeadsKeepTheirOwnAttention ==
  last.op = "forward" =>
    /\ Len(read_attentions) = interface_num_read_heads
    /\ \A i \in ReadHeads :
         read_attentions[i]
           \in HeadAttentionsFrom(last.prev_memory,
                                  last.prev_read_attentions[i])
    /\ Len(write_attention) = Len(memory)
    /\ \A b \in Batches : Len(write_attention[b]) = Len(memory[b])

\* a step of two read heads that started from different attentions, in which
\* the second head has come to an attention the first could not have come to
\* and that is not the one it had
C20_Witness ==
  /\ last.op = "forward"
  /\ Len(read_attentions) = 2
  /\ last.prev_read_attentions[1] # last.prev_read_attentions[2]
  /\ read_attentions[2] # last.prev_read_attentions[2]
  /\ read_attentions[2]
       \notin HeadAttentionsFrom(last.prev_memory,
                                 last.prev_read_attentions[1])
  /\ read_attentions[2]
       \in HeadAttentionsFrom(last.prev_memory, last.prev_read_attentions[2])

\* the memories the write head alone can produce from the memory and the
\* write attention before the step
WriteHeadMemories(prev_memory, prev_write_attention) ==
  {w.memory :
     w \in write_outcomes(
             {split_params(p, write_param_locations)
                : p \in Batched(HeadWriteParams, Len(prev_memory))},
             prev_memory, prev_write_attention)}

\* C21: the memory Interface.forward returns is one the write head produces
\* from prev_memory, the previous write attention and the write head's
\* parameters alone, whatever the number of read heads, their parameters and
\* their previous attentions: it is the erase-and-add update of prev_memory
\* by the write head's new attention.
C21_MemoryFromWriteHeadOnly ==
  last.op = "forward" =>
    /\ memory \in WriteHeadMemories(last.prev_memory,
                                     last.prev_write_attention)
    /\ memory = memory_update(last.prev_memory, write_attention,
                              last.erase_vector, last.add_vector)

\* a step of two read heads whose previous attentions differ from each other
\* and from the write head's, and which has changed the memory
C21_Witness ==
  /\ last.op = "forward"
  /\ interface_num_read_heads = 2
  /\ last.prev_read_attentions[1] # last.prev_read_attentions[2]
  /\ last.prev_read_attentions[1] # last.prev_write_attention
  /\ read_attentions[1] # read_attentions[2]
  /\ memory # last.prev_memory

\* C22: the shifted attention of batch element b is the circular convolution
\* of the attention and the kernel of element b alone: the result of a
\* batched call is, in batch order, what the call returns for every batch
\* element on its own.
C22_ConvolutionPerBatchElement ==
  (last.op = "circular_convolution" /\ ~last.raised) =>
    /\ Len(last.result) = Len(memory)
    /\ \A b \in Batches :
         last.result[b]
           = circular_convolution(<<last.attention[b]>>, <<last.shift[b]>>,
                                  <<memory[b]>>)[1]

\* a batched call whose two batch elements have different attentions and
\* different kernels, and different results
C22_Witness ==
  /\ last.op = "circular_convolution"
  /\ ~last.raised
  /\ Len(memory) >= 2
  /\ last.attention[1] # last.attention[2]
  /\ last.shift[1] # last.shift[2]
  /\ last.result[1] # last.result[2]
  /\ last.result[2] # last.attention[2]

\* the last boundaries of the parameter locations of a constructed Interface
ReadWidth(params) ==
  LastLocation(calculate_param_locations(
    read_param_sizes_of(params.num_content_bits, params.shift_size)))

WriteWidth(params) ==
  LastLocation(calculate_param_locations(
    write_param_sizes_of(params.num_content_bits, params.shift_size)))

\* C23: for every constructed Interface the last boundary of the read
\* parameter locations is the output width of the linear layer of every read
\* head, and the last boundary of the write parameter locations is the
\* output width of the write head's linear layer; a construction whose
\* declared widths do not sum to the number of parameters of a head fails
\* with an assertion, and the assertion fails in no other case.
C23_LocationsMatchLayerWidths ==
  (last.op = "__init__"
     /\ ValidConfig(last.params.shift_size, last.params.num_read_heads)) =>
    /\ last.raised = "none" =>
         /\ \A i \in 1..Len(last.hidden2read_list) :
              last.hidden2read_list[i].out_features = ReadWidth(last.params)
         /\ last.hidden2write_params[1].out_features
              = WriteWidth(last.params)
    /\ last.raised = AssertionError
         <=> \/ ReadWidth(last.params)
                 # last.params.num_content_bits + 1 + 1 + 1
                     + last.params.shift_size
             \/ WriteWidth(last.params)
                 # 3 * last.params.num_content_bits + 1 + 1 + 1
                     + last.params.shift_size

\* an Interface constructed with two read heads and a shift kernel of more
\* than one entry
C23_Witness ==
  /\ last.op = "__init__"
  /\ last.raised = "none"
  /\ Len(last.hidden2read_list) = 2
  /\ last.params.shift_size > 1
  /\ last.hidden2read_list[2].out_features
       = last.params.num_content_bits + last.params.shift_size + 3
  /\ last.hidden2write_params[1].out_features
       = 3 * last.params.num_content_bits + last.params.shift_size + 3

\* a row of the memory whose entries are all zero
ZeroRow(b, a) == \A c \in ContentBits : memory[b][a][c] = R0

\* C24: in content-based addressing a memory row whose entries are all zero
\* has similarity 0 with every query, a finite value as the similarity of
\* every row is (the norm a row is divided by is never 0), and an all-zero
\* memory gives the uniform attention 1/A at every address.
C24_ZeroRowSimilarity ==
  last.op = "content_based_addressing" =>
    \A b \in Batches :
      /\ \A a \in Addresses :
           /\ last.similarity2[b][a][2] # B0
           /\ ZeroRow(b, a) => last.similarity2[b][a][1] = B0
      /\ (\A a \in Addresses : ZeroRow(b, a))
           => \A a \in Addresses :
                last.result[b][a] = RDiv(R1, Q(Len(memory[b]), 1))

\* a call on an all-zero memory of several addresses with a strength above 1
C24_Witness ==
  /\ last.op = "content_based_addressing"
  /\ Len(memory[1]) > 1
  /\ \A a \in Addresses : ZeroRow(1, a)
  /\ last.beta[1] # R1
  /\ last.result[1][1] = RDiv(R1, Q(Len(memory[1]), 1))

\* C25: from an initial memory whose entries are all >= 0, after any number
\* of Interface.forward steps every entry of the memory is >= 0: the write
\* attention and the erase vector are in [0, 1], so no entry of the update
\* is negative.
C25_MemoryStaysNonNegative ==
  /\ \A b \in Batches : \A a \in Addresses : \A c \in ContentBits :
       RLeq(R0, memory[b][a][c])
  /\ last.op = "forward" =>
       /\ last.negative = {}
       /\ \A b \in Batches : \A a \in Addresses :
            RLeq(write_attention[b][a], R1)
       /\ \A b \in Batches : \A c \in ContentBits :
            RLeq(last.erase_vector[b][c], R1)

\* after the last step of a sequence an entry of the memory is above 1
C25_Witness ==
  /\ last.op = "forward"
  /\ steps = MaxSequence
  /\ last.negative = {}
  /\ \E b \in Batches : \E a \in Addresses : \E c \in ContentBits :
       /\ RLess(R1, memory[b][a][c])
       /\ RLess(last.prev_memory[b][a][c], memory[b][a][c])
       /\ RLess(R1, last.prev_memory[b][a][c])

\* what the controller returns for the last of the inputs xs, run from the
\* controller state init
RECURSIVE ControllerRun(_, _)
ControllerRun(xs, init) ==
  IF Len(xs) = 1 THEN controller(xs[1], init)
  ELSE controller(xs[Len(xs)],
                  ControllerRun(SubSeq(xs, 1, Len(xs) - 1), init).state)

RECURSIVE StateAfter(_, _)
StateAfter(xs, state) ==
  IF xs = <<>> THEN state
  ELSE <<"state", xs[Len(xs)],
         StateAfter(SubSeq(xs, 1, Len(xs) - 1), state)>>

\* C27: for an input of zero timesteps the layer makes no call of the cell
\* and returns None and the given state; when the output of every timestep
\* is None it returns None as output, not an empty sequence, and the state
\* after all T steps of the cell.
C27_NoOutputReturnsNone ==
  /\ Len(layer.x) = 0 => layer.calls = <<>>
  /\ layer.pc = "done" =>
       /\ Len(layer.x) = 0 =>
            /\ last.returned[1].is_none
            /\ last.returned[2] = layer.given_state
       /\ (\A k \in 1..Len(layer.calls) : layer.calls[k].tm_output.is_none)
            => /\ last.returned[1].is_none
               /\ Len(layer.calls) = Len(layer.x)
               /\ last.returned[2] = StateAfter(layer.x, layer.given_state)

\* the layer has returned after MaxTime timesteps that all had no output
C27_Witness ==
  /\ layer.pc = "done"
  /\ Len(layer.x) = MaxTime
  /\ Len(layer.calls) = MaxTime
  /\ \A k \in 1..Len(layer.calls) : layer.calls[k].tm_output.is_none
  /\ last.returned[1].is_none
  /\ last.returned[2] # layer.given_state

=============================================================================
